---- MODULE Spec2Model ----
(***************************************************************************)
(* xml_file_mocker.py: a recursive walk over a parsed XML element tree     *)
(* that normalises the number of siblings carrying a target tag and        *)
(* replaces non-blank element text by generated mock data.                 *)
(*                                                                         *)
(* Elements are heap cells 1..Len(tag); each cell has a tag, an attribute  *)
(* mapping (a set of <<name, value>> pairs), a text (a sequence of         *)
(* one-character strings, <<>> standing for None or "") and an ordered     *)
(* list of children (cell numbers).  Cells are never freed: an element     *)
(* removed from its parent stays in the heap, unreachable from the root.   *)
(*                                                                         *)
(* Not modelled: element tails, comments and processing instructions, the  *)
(* installation of faker (lines 22-45), and line 158, a stray name "gg"    *)
(* between process_node and mock_xml that raises NameError when the file   *)
(* is loaded; the functions are modelled as they are written.              *)
(***************************************************************************)
EXTENDS Integers, Sequences, FiniteSets, TLC

\* ---------------------------------------------------------------- bounds
MaxNodes == 4        \* elements of an input document
MaxCount == 2        \* largest --count
MaxNeg == 1          \* most negative --count is -MaxNeg
MaxLen == 3          \* characters of an argument of infer_data_type
MainMaxNodes == 2    \* elements of an input file of main

\* ------------------------------------------------------------ vocabulary
Root == 1
NoTag == "None"                       \* --node omitted: target_node is None
NoText == <<>>                        \* text None (or "")
Tags == {"a", "item"}
TargetTags == {"item", NoTag}
CountValues == (0 - MaxNeg)..MaxCount
Whitespace == {" "}
Digits == {"1", "2", "7", "0", "5"}

VARIABLES tag, attrib, text, children,   \* the element heap
          target_node, desired_count,    \* the walk's target tag and count
          todo,                          \* pending process_node calls, next first
          pc,
          faker,                         \* what fake.date_pattern_validator does here
          args, fs,                      \* the command line; the files by path
          output_file,                   \* main's local
          run,                           \* 1 for the first run of the tool, 2 for the second
          arg, result,                   \* infer_data_type's argument and outcome
          visits,                        \* history: process_node calls per element
          hadTarget,                     \* history: element had a target child at a visit
          orig,                          \* history: the heap as parsed
          pre,                           \* history: the heap before the last step
          last,                          \* history: the last operation and its element
          parsed, written                \* history: ET.parse and tree.write calls so far

vars == <<tag, attrib, text, children, target_node, desired_count, todo, pc, faker,
          args, fs, output_file, run, arg, result,
          visits, hadTarget, orig, pre, last, parsed, written>>

Heap == [tag |-> tag, attrib |-> attrib, text |-> text, children |-> children]
EmptyHeap == [tag |-> <<>>, attrib |-> <<>>, text |-> <<>>, children |-> <<>>]

\* ------------------------------------------------------ sequence helpers
Range(s) == {s[i] : i \in DOMAIN s}

\* pads a per-element history with d for the elements allocated since
Pad(s, n, d) == [i \in 1..n |-> IF i <= Len(s) THEN s[i] ELSE d]

\* s[start+1:]: the slice one place late
PySliceFromNext(s, start) ==
    LET n == Len(s)
        b == IF start + 1 < 0
             THEN (IF n + start + 1 < 0 THEN 0 ELSE n + start + 1)
             ELSE (IF start + 1 > n THEN n ELSE start + 1)
    IN SubSeq(s, b + 1, n)

\* Python s[start:]
PySliceFrom(s, start) ==
    LET n == Len(s)
        b == IF start < 0
             THEN (IF n + start < 0 THEN 0 ELSE n + start)
             ELSE (IF start > n THEN n ELSE start)
    IN SubSeq(s, b + 1, n)

\* list.remove(x): drops the first occurrence of x
ListRemove(s, x) ==
    IF x \notin Range(s) THEN s
    ELSE LET i == CHOOSE i \in 1..Len(s) : s[i] = x /\ \A j \in 1..(i - 1) : s[j] # x
         IN SubSeq(s, 1, i - 1) \o SubSeq(s, i + 1, Len(s))

\* str.strip()
RECURSIVE LStrip(_)
LStrip(s) == IF s # <<>> /\ Head(s) \in Whitespace THEN LStrip(Tail(s)) ELSE s

RECURSIVE RStrip(_)
RStrip(s) ==
    IF s # <<>> /\ s[Len(s)] \in Whitespace THEN RStrip(SubSeq(s, 1, Len(s) - 1)) ELSE s

Strip(s) == RStrip(LStrip(s))

\* ------------------------------------------------------- type inference
\* str.isdigit(): non-empty and every character a digit
IsDigit(value) == value # <<>> /\ \A i \in 1..Len(value) : value[i] \in Digits

\* One step of the recogniser of a decimal floating-point literal:
\* [sign] (digits ["." [digits]] | "." digits) [("e") [sign] digits], where
\* digits may be grouped by single underscores.
FloatStep(q, c) ==
    LET d == c \in Digits
        sign == c \in {"-", "+"}
    IN CASE q = "start"  -> IF sign THEN "signed" ELSE IF d THEN "int"
                            ELSE IF c = "." THEN "dot" ELSE "bad"
         [] q = "signed" -> IF d THEN "int" ELSE IF c = "." THEN "dot" ELSE "bad"
         [] q = "int"    -> IF d THEN "int" ELSE IF c = "_" THEN "int_"
                            ELSE IF c = "." THEN "point" ELSE IF c \in {"e", "E"} THEN "exp"
                            ELSE "bad"
         [] q = "int_"   -> IF d THEN "int" ELSE "bad"
         [] q = "dot"    -> IF d THEN "frac" ELSE "bad"
         [] q = "point"  -> IF d THEN "frac" ELSE IF c \in {"e", "E"} THEN "exp" ELSE "bad"
         [] q = "frac"   -> IF d THEN "frac" ELSE IF c = "_" THEN "frac_"
                            ELSE IF c \in {"e", "E"} THEN "exp" ELSE "bad"
         [] q = "frac_"  -> IF d THEN "frac" ELSE "bad"
         [] q = "exp"    -> IF sign THEN "esigned" ELSE IF d THEN "edigits" ELSE "bad"
         [] q = "esigned" -> IF d THEN "edigits" ELSE "bad"
         [] q = "edigits" -> IF d THEN "edigits" ELSE IF c = "_" THEN "edigits_" ELSE "bad"
         [] q = "edigits_" -> IF d THEN "edigits" ELSE "bad"
         [] OTHER -> "bad"

RECURSIVE FloatRun(_, _)
FloatRun(q, s) == IF s = <<>> THEN q ELSE FloatRun(FloatStep(q, Head(s)), Tail(s))

Unsigned(s) == IF s # <<>> /\ Head(s) \in {"-", "+"} THEN Tail(s) ELSE s

\* float(value): "ok" when the string is a float literal, else ValueError
PyFloat(value) ==
    LET s == Strip(value)
    IN IF \/ FloatRun("start", s) \in {"int", "point", "frac", "edigits"}
          \/ Unsigned(s) \in {<<"n", "a", "n">>, <<"i", "n", "f">>,
                              <<"i", "n", "f", "i", "n", "i", "t", "y">>}
       THEN "ok" ELSE "ValueError"

\* what the call fake.date_pattern_validator(value) can do: come back or raise
DateCheckOutcomes == {"returns", "raises"}

HasDateSeparator(value) == \E i \in 1..Len(value) : value[i] \in {"-", "/"}

Return(v) == [kind |-> "return", value |-> v]
Raise(e) == [kind |-> "raise", value |-> e]

\* lines 88-93: the try block around the date check
DateBranch(value, dateCheck) ==
    IF HasDateSeparator(value)
    THEN (IF dateCheck = "returns" THEN Return("date") ELSE Raise("Exception"))
    ELSE Return("pass")

\* the float test before the digit test
infer_data_type_float_first(value, dateCheck) ==
    IF PyFloat(value) = "ok" THEN Return("float")
    ELSE IF IsDigit(value) THEN Return("int")
    ELSE LET r == DateBranch(value, dateCheck)
         IN IF r.kind = "raise" \/ r.value = "pass" THEN Return("string") ELSE r

infer_data_type(value, dateCheck) ==
    IF IsDigit(value) THEN Return("int")
    ELSE IF PyFloat(value) = "ok" THEN Return("float")
    ELSE LET r == DateBranch(value, dateCheck)
         IN IF r.kind = "raise" \/ r.value = "pass" THEN Return("string") ELSE r

\* ---------------------------------------------------------- mock values
\* One representative of the values each random generator produces: a decimal
\* integer, a decimal with two places, a date, a word.
generate_mock_data(data_type) ==
    CASE data_type = "int"   -> {<<"7">>}
      [] data_type = "float" -> {<<"7", ".", "5">>}
      [] data_type = "date"  -> {<<"1", "-", "2", "-", "7">>}
      [] OTHER               -> {<<"e", "n">>}

Words == generate_mock_data("string")

\* ---------------------------------------------------- adjust_node_count
TagsOfChildren(H, node) == {H.tag[H.children[node][i]] : i \in 1..Len(H.children[node])}

CurrentNodes(H, parent, target) ==
    SelectSeq(H.children[parent], LAMBDA c : H.tag[c] = target)

RECURSIVE RemoveNodes(_, _, _)
RemoveNodes(H, parent, nodes) ==
    IF nodes = <<>> THEN H
    ELSE RemoveNodes([H EXCEPT !.children[parent] = ListRemove(@, Head(nodes))],
                     parent, Tail(nodes))

\* ET.Element(tag, attrib): a new element without text or children
NewElement(H, t, a) ==
    [tag |-> Append(H.tag, t), attrib |-> Append(H.attrib, a),
     text |-> Append(H.text, NoText), children |-> Append(H.children, <<>>)]

\* the copy of the template's children without "new_child.text = child.text"
RECURSIVE CopyChildrenNoText(_, _, _)
CopyChildrenNoText(H, new_node, kids) ==
    IF kids = <<>> THEN H
    ELSE LET child == Head(kids)
             H1 == NewElement(H, H.tag[child], H.attrib[child])
             new_child == Len(H1.tag)
             H2 == [H1 EXCEPT !.children[new_child] = @ \o H.children[child],
                              !.children[new_node] = Append(@, new_child)]
         IN CopyChildrenNoText(H2, new_node, Tail(kids))

\* new_child = Element(child.tag, child.attrib); text copied; the child's own
\* children are extended into it: the same elements, not copies
RECURSIVE CopyChildren(_, _, _)
CopyChildren(H, new_node, kids) ==
    IF kids = <<>> THEN H
    ELSE LET child == Head(kids)
             H1 == NewElement(H, H.tag[child], H.attrib[child])
             new_child == Len(H1.tag)
             H2 == [H1 EXCEPT !.text[new_child] = H.text[child],
                              !.children[new_child] = @ \o H.children[child],
                              !.children[new_node] = Append(@, new_child)]
         IN CopyChildren(H2, new_node, Tail(kids))

CloneTemplate(H, parent, template_node) ==
    LET H1 == NewElement(H, H.tag[template_node], H.attrib[template_node])
        new_node == Len(H1.tag)
        H2 == CopyChildren(H1, new_node, H.children[template_node])
    IN [H2 EXCEPT !.children[parent] = Append(@, new_node)]

\* the blank node without "new_node.text = generate_mock_data('string')"
BlankNodeNoText(H, parent, target, word) ==
    LET H1 == NewElement(H, target, {})
        new_node == Len(H1.tag)
    IN [H1 EXCEPT !.children[parent] = Append(@, new_node)]

BlankNode(H, parent, target, word) ==
    LET H1 == NewElement(H, target, {})
        new_node == Len(H1.tag)
    IN [H1 EXCEPT !.text[new_node] = word, !.children[parent] = Append(@, new_node)]

\* the body of the for loop, k more times; words are the generated strings
\* still to be used
RECURSIVE AddNodes(_, _, _, _, _, _)
AddNodes(H, parent, target, template_node, k, words) ==
    IF k <= 0 THEN H
    ELSE IF template_node # 0
         THEN AddNodes(CloneTemplate(H, parent, template_node), parent, target,
                       template_node, k - 1, words)
         ELSE AddNodes(BlankNode(H, parent, target, Head(words)), parent, target,
                       template_node, k - 1, Tail(words))

\* the number of generate_mock_data('string') calls one call makes
WordDraws(H, parent, target, desired) ==
    IF CurrentNodes(H, parent, target) = <<>> /\ desired > 0 THEN desired ELSE 0

\* the loop one iteration short: range(desired_count - current_count - 1)
adjust_node_count_short(H, parent, target, desired, words) ==
    LET current_nodes == CurrentNodes(H, parent, target)
        current_count == Len(current_nodes)
        template_node == IF current_nodes # <<>> THEN current_nodes[1] ELSE 0
    IN IF current_count > desired
       THEN RemoveNodes(H, parent, PySliceFrom(current_nodes, desired))
       ELSE IF current_count < desired
       THEN AddNodes(H, parent, target, template_node, desired - current_count - 1, words)
       ELSE H

adjust_node_count(H, parent, target, desired, words) ==
    LET current_nodes == CurrentNodes(H, parent, target)
        current_count == Len(current_nodes)
        template_node == IF current_nodes # <<>> THEN current_nodes[1] ELSE 0
    IN IF current_count > desired
       THEN RemoveNodes(H, parent, PySliceFrom(current_nodes, desired))
       ELSE IF current_count < desired
       THEN AddNodes(H, parent, target, template_node, desired - current_count, words)
       ELSE H

\* ------------------------------------------- process_node with a slip
\* "if target_node is None or target_node in [...]"
IsParentOfTargetOrNone(H, node, target) ==
    target = NoTag \/ target \in TagsOfChildren(H, node)

\* "if node.text:" without the strip
HasDataNoStrip(H, node) == H.text[node] # <<>>

\* --------------------------------------------------------- process_node
\* "if target_node in [child.tag for child in node]"
IsParentOfTarget(H, node, target) == target \in TagsOfChildren(H, node)

HasData(H, node) == H.text[node] # <<>> /\ Strip(H.text[node]) # <<>>

\* lines 146-153 for one element: count adjustment, then the text
process_node(H, node, target, desired, words, mock) ==
    LET H1 == IF IsParentOfTarget(H, node, target)
              THEN adjust_node_count(H, node, target, desired, words)
              ELSE H
    IN IF HasData(H1, node) THEN [H1 EXCEPT !.text[node] = mock] ELSE H1

\* the values generate_mock_data can give for the element's text
MockDraws(H, node, dateCheck) ==
    IF HasData(H, node)
    THEN generate_mock_data(infer_data_type(Strip(H.text[node]), dateCheck).value)
    ELSE {NoText}

NodeWordDraws(H, node, target, desired) ==
    IF IsParentOfTarget(H, node, target)
    THEN [1..WordDraws(H, node, target, desired) -> Words]
    ELSE {<<>>}

\* ------------------------------------------------------ input documents
\* A document of n elements, numbered in document order: parent[i] is the
\* element open when element i starts, so it is i-1 or an ancestor of i-1.
RECURSIVE Ancestors(_, _)
Ancestors(parent, i) ==
    IF i = Root THEN {} ELSE {parent[i]} \cup Ancestors(parent, parent[i])

Shapes(n) ==
    {parent \in [2..n -> 1..(n - 1)] :
        \A i \in 2..n : parent[i] = i - 1 \/ parent[i] \in Ancestors(parent, i - 1)}

RECURSIVE Ascending(_)
Ascending(S) ==
    IF S = {} THEN <<>>
    ELSE LET m == CHOOSE x \in S : \A y \in S : x <= y
         IN <<m>> \o Ascending(S \ {m})

\* The texts and attribute mappings of a document follow one of the Profiles:
\* element i of a document with profile p carries the text
\* TextCycle[(i+p) % 6] and attributes when 3 divides i+p, so that over the
\* profiles every element carries every text, and one document mixes absent,
\* blank and non-blank texts, elements with and without attributes.
TextCycle == <<NoText, <<"1", "2">>, <<" ">>, <<"1", "-", "2">>,
               <<" ", "a", "b", " ">>, <<"n", "a", "n">>>>
Profiles == 0..(Len(TextCycle) - 1)

ProfileText(i, p) == TextCycle[((i + p) % Len(TextCycle)) + 1]
ProfileAttrib(i, p) == IF (i + p) % 3 = 0 THEN {<<"id", "x">>, <<"k", "v">>} ELSE {}

Documents(maxNodes) ==
    UNION {
      UNION {
        { [tag |-> tg,
           attrib |-> [i \in 1..n |-> ProfileAttrib(i, p)],
           text |-> [i \in 1..n |-> ProfileText(i, p)],
           children |-> [i \in 1..n |-> Ascending({j \in 2..n : parent[j] = i})]]
          : tg \in [1..n -> Tags], p \in Profiles }
        : parent \in Shapes(n) }
      : n \in 1..maxNodes }

\* ------------------------------------------------------- tree inspection
Elements(H) == 1..Len(H.tag)

ChildSet(H, e) == Range(H.children[e])

RECURSIVE ReachFrom(_, _, _)
ReachFrom(H, frontier, seen) ==
    IF frontier = {} THEN seen
    ELSE LET next == (UNION {ChildSet(H, e) : e \in frontier}) \ seen
         IN ReachFrom(H, next, seen \cup next)

\* the elements of the tree: those serialised by tree.write
InTree(H) == IF H.tag = <<>> THEN {} ELSE ReachFrom(H, {Root}, {Root})

Parents(H, e) == {p \in InTree(H) : e \in ChildSet(H, p)}

TargetCount(H, e, target) == Len(CurrentNodes(H, e, target))

\* ------------------------------------------------- files: write and parse
\* A file is the sequence of its start and end tags; a start tag carries the
\* element's attributes and the text that follows it.
StartTag(t, a, x) == [kind |-> "start", tag |-> t, attrib |-> a, text |-> x]
EndTag(t) == [kind |-> "end", tag |-> t, attrib |-> {}, text |-> NoText]

\* tree.write: the element, then its children in order, an element being
\* written once for every place it has in the tree
RECURSIVE Serialize(_, _)
RECURSIVE SerializeAll(_, _)
Serialize(H, e) ==
    <<StartTag(H.tag[e], H.attrib[e], H.text[e])>> \o SerializeAll(H, H.children[e])
        \o <<EndTag(H.tag[e])>>

SerializeAll(H, es) ==
    IF es = <<>> THEN <<>> ELSE Serialize(H, Head(es)) \o SerializeAll(H, Tail(es))

Parsed(H) == [error |-> "none", heap |-> H]
ParseError == [error |-> "ParseError", heap |-> EmptyHeap]

\* ET.parse: builds the elements in document order; open is the stack of
\* open elements, innermost last
RECURSIVE ParseTokens(_, _, _)
ParseTokens(tokens, H, open) ==
    IF tokens = <<>>
    THEN (IF open = <<>> /\ H.tag # <<>> THEN Parsed(H) ELSE ParseError)
    ELSE LET tok == Head(tokens)
         IN IF tok.kind = "start"
            THEN IF open = <<>> /\ H.tag # <<>>
                 THEN ParseError                    \* junk after the document element
                 ELSE LET H1 == NewElement(H, tok.tag, tok.attrib)
                          e == Len(H1.tag)
                          H2 == [H1 EXCEPT !.text[e] = tok.text]
                          H3 == IF open = <<>> THEN H2
                                ELSE [H2 EXCEPT !.children[open[Len(open)]] = Append(@, e)]
                      IN ParseTokens(Tail(tokens), H3, Append(open, e))
            ELSE IF open = <<>> \/ H.tag[open[Len(open)]] # tok.tag
                 THEN ParseError                    \* mismatched tag
                 ELSE ParseTokens(Tail(tokens), H, SubSeq(open, 1, Len(open) - 1))

Parse(tokens) == ParseTokens(tokens, EmptyHeap, <<>>)

MalformedFiles ==
    { <<>>,
      <<StartTag("a", {}, NoText)>>,
      <<StartTag("a", {}, NoText), EndTag("item")>>,
      <<StartTag("a", {}, NoText), EndTag("a"), StartTag("a", {}, NoText), EndTag("a")>> }

\* ----------------------------------------------------------- the program
NoArg == "None"
Paths == {"in.xml", "out.xml"}
Absent == [exists |-> FALSE, content |-> <<>>]
File(tokens) == [exists |-> TRUE, content |-> tokens]
Idle == [op |-> "none", node |-> 0, adjusted |-> FALSE]
NoArgs == [input |-> "", output |-> NoArg, replace |-> FALSE, node |-> NoTag, count |-> 1]
NoResult == Return("none")

LoadTree(doc) ==
    /\ tag = doc.tag
    /\ attrib = doc.attrib
    /\ text = doc.text
    /\ children = doc.children
    /\ orig = doc
    /\ pre = doc
    /\ visits = [i \in 1..Len(doc.tag) |-> 0]
    /\ hadTarget = [i \in 1..Len(doc.tag) |-> FALSE]
    /\ last = Idle

NoMain ==
    /\ args = NoArgs
    /\ fs = [p \in Paths |-> Absent]
    /\ output_file = NoArg
    /\ parsed = 0
    /\ written = 0
    /\ run = 1

NoInfer ==
    /\ arg = <<>>
    /\ result = NoResult

\* The functions of the module used on a parsed tree: either the walk from the
\* root, or one call of adjust_node_count on an element of the tree.
Init ==
    /\ \E doc \in Documents(MaxNodes) : LoadTree(doc)
    /\ \/ /\ pc = "walk"
          /\ todo = <<Root>>
          /\ target_node \in TargetTags
          /\ faker \in DateCheckOutcomes
       \/ /\ pc = "call"
          /\ todo = <<>>
          /\ target_node \in Tags
          /\ faker = "raises"
    /\ desired_count \in CountValues
    /\ NoMain
    /\ NoInfer

SetHeap(H) ==
    /\ tag' = H.tag
    /\ attrib' = H.attrib
    /\ text' = H.text
    /\ children' = H.children

\* One call of process_node: lines 146-153 on the element, then the loop of
\* line 155 over list(node) queues the calls for the children.
Visit ==
    /\ pc = "walk"
    /\ todo # <<>>
    /\ LET node == Head(todo)
       IN \E words \in NodeWordDraws(Heap, node, target_node, desired_count),
             mock \in MockDraws(Heap, node, faker) :
              LET H == process_node(Heap, node, target_node, desired_count, words, mock)
                  n == Len(H.tag)
                  rest == H.children[node] \o Tail(todo)
                  isParent == IsParentOfTarget(Heap, node, target_node)
              IN /\ SetHeap(H)
                 /\ todo' = rest
                 /\ pc' = IF rest = <<>> THEN "walked" ELSE "walk"
                 /\ visits' = [Pad(visits, n, 0) EXCEPT ![node] = @ + 1]
                 /\ hadTarget' = [Pad(hadTarget, n, FALSE) EXCEPT ![node] = @ \/ isParent]
                 /\ last' = [op |-> "process_node", node |-> node, adjusted |-> isParent]
                 /\ pre' = Heap
    /\ UNCHANGED <<target_node, desired_count, faker, orig, args, fs, output_file, run,
                   arg, result, parsed, written>>

\* adjust_node_count called on an element of the tree
AdjustCall ==
    /\ pc = "call"
    /\ \E parent \in InTree(Heap) :
         \E words \in [1..WordDraws(Heap, parent, target_node, desired_count) -> Words] :
            LET H == adjust_node_count(Heap, parent, target_node, desired_count, words)
                n == Len(H.tag)
            IN /\ SetHeap(H)
               /\ visits' = Pad(visits, n, 0)
               /\ hadTarget' = Pad(hadTarget, n, FALSE)
               /\ last' = [op |-> "adjust_node_count", node |-> parent, adjusted |-> TRUE]
               /\ pre' = Heap
    /\ pc' = "called"
    /\ UNCHANGED <<target_node, desired_count, todo, faker, orig, args, fs, output_file,
                   run, arg, result, parsed, written>>

Next == Visit \/ AdjustCall

Spec == Init /\ [][Next]_vars

\* ------------------------------------------------------- infer_data_type
InferAlphabet == {"1", ".", "-", "/", "e", "a", "n"}

\* the trimmed non-empty strings of at most n characters
Strings(n) == UNION {[1..k -> InferAlphabet] : k \in 1..n}

NoTree ==
    /\ tag = <<>>
    /\ attrib = <<>>
    /\ text = <<>>
    /\ children = <<>>
    /\ orig = EmptyHeap
    /\ pre = EmptyHeap
    /\ visits = <<>>
    /\ hadTarget = <<>>
    /\ last = Idle
    /\ todo = <<>>
    /\ target_node = NoTag
    /\ desired_count = 1

InitInfer ==
    /\ arg \in Strings(MaxLen)
    /\ faker \in DateCheckOutcomes
    /\ result = NoResult
    /\ pc = "infer"
    /\ NoTree
    /\ NoMain

Infer ==
    /\ pc = "infer"
    /\ result' = infer_data_type(arg, faker)
    /\ pc' = "returned"
    /\ UNCHANGED <<tag, attrib, text, children, target_node, desired_count, todo, faker,
                   args, fs, output_file, run, arg, visits, hadTarget, orig, pre, last,
                   parsed, written>>

SpecInfer == InitInfer /\ [][Infer]_vars

\* ------------------------------------------------------------------ main
\* "if not output_file" without the test
OutputMissingNever(file) == FALSE

\* "if not output_file": None or the empty string
OutputMissing(file) == file \in {NoArg, ""}

CommandLines(outputs) ==
    [input : {"in.xml", ""}, output : outputs, replace : BOOLEAN,
     node : TargetTags, count : CountValues]

InitMain ==
    /\ args \in CommandLines({NoArg, "", "out.xml"})
    /\ \E tokens \in {Serialize(doc, Root) : doc \in Documents(MainMaxNodes)}
                        \cup MalformedFiles :
          fs = [p \in Paths |-> IF p = "in.xml" THEN File(tokens) ELSE Absent]
    /\ faker \in DateCheckOutcomes
    /\ output_file = NoArg
    /\ parsed = 0
    /\ written = 0
    /\ run = 1
    /\ pc = "main"
    /\ NoTree
    /\ NoInfer

\* main, lines 216-230: the output file, the check, the call of mock_xml
ResolveOutput ==
    /\ pc = "main"
    /\ LET out == IF args.replace THEN args.input ELSE args.output
       IN /\ output_file' = out
          /\ IF OutputMissing(out)
             THEN /\ pc' = "ValueError"
                  /\ UNCHANGED <<target_node, desired_count>>
             ELSE /\ pc' = "mock_xml"
                  /\ target_node' = args.node
                  /\ desired_count' = args.count
    /\ UNCHANGED <<tag, attrib, text, children, todo, faker, args, fs, run, arg, result,
                   visits, hadTarget, orig, pre, last, parsed, written>>

\* mock_xml, lines 170-173: ET.parse, getroot, the first call of process_node
ParseInput ==
    /\ pc = "mock_xml"
    /\ parsed' = parsed + 1
    /\ IF args.input \notin Paths \/ ~fs[args.input].exists
       THEN /\ pc' = "FileNotFoundError"
            /\ UNCHANGED <<tag, attrib, text, children, todo, visits, hadTarget, orig, pre>>
       ELSE LET r == Parse(fs[args.input].content)
            IN IF r.error # "none"
               THEN /\ pc' = "ParseError"
                    /\ UNCHANGED <<tag, attrib, text, children, todo, visits, hadTarget,
                                   orig, pre>>
               ELSE /\ SetHeap(r.heap)
                    /\ orig' = r.heap
                    /\ pre' = r.heap
                    /\ visits' = [i \in 1..Len(r.heap.tag) |-> 0]
                    /\ hadTarget' = [i \in 1..Len(r.heap.tag) |-> FALSE]
                    /\ todo' = <<Root>>
                    /\ pc' = "walk"
    /\ last' = Idle
    /\ UNCHANGED <<target_node, desired_count, faker, args, fs, output_file, run, arg,
                   result, written>>

\* mock_xml, line 175: tree.write
WriteOutput ==
    /\ pc = "walked"
    /\ fs' = [p \in Paths |-> IF p = output_file THEN File(Serialize(Heap, Root)) ELSE fs[p]]
    /\ written' = written + 1
    /\ pc' = "exit"
    /\ UNCHANGED <<tag, attrib, text, children, target_node, desired_count, todo, faker,
                   args, output_file, run, arg, result, visits, hadTarget, orig, pre, last,
                   parsed>>

NextMain == ResolveOutput \/ ParseInput \/ Visit \/ WriteOutput

SpecMain == InitMain /\ [][NextMain]_vars

\* --------------------------------------------- the tool on its own output
InitTwice ==
    /\ args \in {a \in CommandLines({"out.xml"}) : a.input = "in.xml"}
    /\ \E doc \in Documents(MaxNodes) :
          fs = [p \in Paths |-> IF p = "in.xml" THEN File(Serialize(doc, Root)) ELSE Absent]
    /\ faker \in DateCheckOutcomes
    /\ output_file = NoArg
    /\ parsed = 0
    /\ written = 0
    /\ run = 1
    /\ pc = "main"
    /\ NoTree
    /\ NoInfer

\* the second run: a new process, with the first run's output as its input
\* and the same --node and --count
RunAgain ==
    /\ pc = "exit"
    /\ run = 1
    /\ run' = 2
    /\ args' = [args EXCEPT !.input = output_file]
    /\ pc' = "main"
    /\ SetHeap(EmptyHeap)
    /\ orig' = EmptyHeap
    /\ pre' = EmptyHeap
    /\ visits' = <<>>
    /\ hadTarget' = <<>>
    /\ last' = Idle
    /\ todo' = <<>>
    /\ output_file' = NoArg
    /\ parsed' = 0
    /\ written' = 0
    /\ UNCHANGED <<target_node, desired_count, faker, fs, arg, result>>

NextTwice == ResolveOutput \/ ParseInput \/ Visit \/ WriteOutput \/ RunAgain

SpecTwice == InitTwice /\ [][NextTwice]_vars

\* ================================================================ claims
Walked == pc = "walked"
Target == target_node
Count == desired_count
Kept == InTree(Heap) \cap Elements(orig)      \* parsed elements still in the tree
Created == InTree(Heap) \ Elements(orig)      \* elements made by the walk, in the tree

\* C1: after the walk (count >= 0), every element of the resulting tree that
\* had a child with the target tag when it was visited has exactly
\* desired_count children with the target tag.
Thm_C1 ==
    (Walked /\ Count >= 0) =>
        \A e \in InTree(Heap) : hadTarget[e] => TargetCount(Heap, e, Target) = Count

Witness_C1 ==
    /\ Walked
    /\ Count = 2
    /\ \E e \in Created : hadTarget[e] /\ TargetCount(Heap, e, Target) = 2
    /\ \E e \in Kept : hadTarget[e] /\ TargetCount(orig, e, Target) = 1

\* C2: normalisation of a parent with more than desired_count (>= 0) target
\* children keeps exactly the first desired_count of them, in order, and every
\* child with another tag at its place among the remaining children.
AdjustedParent == last.node
TargetsBefore == CurrentNodes(pre, AdjustedParent, Target)

Thm_C2 ==
    (last.adjusted /\ Count >= 0 /\ Len(TargetsBefore) > Count) =>
        LET keep == Range(SubSeq(TargetsBefore, 1, Count))
        IN /\ CurrentNodes(Heap, AdjustedParent, Target) = SubSeq(TargetsBefore, 1, Count)
           /\ children[AdjustedParent] =
                SelectSeq(pre.children[AdjustedParent],
                          LAMBDA c : pre.tag[c] # Target \/ c \in keep)
           /\ Len(tag) = Len(pre.tag)

Witness_C2 ==
    /\ last.adjusted
    /\ Count = 1
    /\ Len(pre.children[AdjustedParent]) = 3
    /\ pre.tag[pre.children[AdjustedParent][1]] = Target
    /\ pre.tag[pre.children[AdjustedParent][2]] # Target
    /\ pre.tag[pre.children[AdjustedParent][3]] = Target
    /\ Len(children[AdjustedParent]) = 2

\* C3: normalisation of a parent with k target children, 1 <= k < desired_count,
\* leaves it with desired_count target children: the k originals, unchanged,
\* then desired_count - k new elements, each with the tag and attributes of the
\* first original and, for each child of that template in order, one new child
\* with the same tag, attributes and text.
SameElement(H1, e1, H2, e2) ==
    /\ H1.tag[e1] = H2.tag[e2]
    /\ H1.attrib[e1] = H2.attrib[e2]
    /\ H1.text[e1] = H2.text[e2]

IsCloneOf(c, t) ==
    /\ c \notin Elements(pre)
    /\ tag[c] = pre.tag[t]
    /\ attrib[c] = pre.attrib[t]
    /\ Len(children[c]) = Len(pre.children[t])
    /\ \A i \in 1..Len(children[c]) :
          /\ children[c][i] \notin Elements(pre)
          /\ SameElement(Heap, children[c][i], pre, pre.children[t][i])

Thm_C3 ==
    (last.adjusted /\ Len(TargetsBefore) >= 1 /\ Len(TargetsBefore) < Count) =>
        LET k == Len(TargetsBefore)
            now == CurrentNodes(Heap, AdjustedParent, Target)
        IN /\ Len(now) = Count
           /\ SubSeq(now, 1, k) = TargetsBefore
           /\ SubSeq(children[AdjustedParent], 1, Len(pre.children[AdjustedParent]))
                = pre.children[AdjustedParent]
           /\ \A j \in 1..k : /\ SameElement(Heap, now[j], pre, now[j])
                              /\ children[now[j]] = pre.children[now[j]]
           /\ \A j \in (k + 1)..Count : IsCloneOf(now[j], TargetsBefore[1])

Witness_C3 ==
    /\ last.adjusted
    /\ Len(TargetsBefore) = 1
    /\ Count = 2
    /\ Len(pre.children[TargetsBefore[1]]) = 2
    /\ pre.attrib[TargetsBefore[1]] # {}
    /\ \E i \in 1..2 : Strip(pre.text[pre.children[TargetsBefore[1]][i]]) # <<>>
    /\ Len(CurrentNodes(Heap, AdjustedParent, Target)) = 2

\* C4 as claimed: the walk (count >= 1) gives every parent it reaches that has
\* no child with the target tag desired_count new children with that tag.
Claim_C4 ==
    (Walked /\ Count >= 1 /\ Target \in Tags) =>
        \A e \in InTree(Heap) :
            (visits[e] >= 1 /\ ~hadTarget[e]) => TargetCount(Heap, e, Target) = Count

\* C4 as amended: adjust_node_count called on a parent without a target child
\* (count >= 1) appends desired_count new childless elements with the target
\* tag, no attributes and a generated non-blank word as text; process_node
\* does not make that call: it leaves the children of such a parent as they are
\* and creates nothing.
Thm_C4 ==
    /\ (last.op = "adjust_node_count" /\ Count >= 1 /\ TargetsBefore = <<>>) =>
          /\ Len(tag) = Len(pre.tag) + Count
          /\ children[AdjustedParent] =
               pre.children[AdjustedParent] \o [i \in 1..Count |-> Len(pre.tag) + i]
          /\ \A e \in (Len(pre.tag) + 1)..Len(tag) :
                /\ tag[e] = Target
                /\ attrib[e] = {}
                /\ children[e] = <<>>
                /\ text[e] \in Words
                /\ Strip(text[e]) # <<>>
    /\ (last.op = "process_node" /\ TargetsBefore = <<>>) =>
          /\ ~last.adjusted
          /\ Len(tag) = Len(pre.tag)
          /\ children = pre.children

Witness_C4 ==
    /\ last.op = "adjust_node_count"
    /\ Count = 2
    /\ TargetsBefore = <<>>
    /\ pre.children[AdjustedParent] # <<>>
    /\ Len(children[AdjustedParent]) = Len(pre.children[AdjustedParent]) + 2

\* C5 as claimed: every parsed element still in the tree after the walk has its
\* tag and attributes, and its text too if it has children.
Claim_C5 ==
    Walked =>
        \A e \in Kept :
            /\ tag[e] = orig.tag[e]
            /\ attrib[e] = orig.attrib[e]
            /\ children[e] # <<>> => text[e] = orig.text[e]

\* C5 as amended: every parsed element still in the tree after the walk has
\* its tag and attributes; its text is replaced only if it was non-blank,
\* whether or not the element has children, and an absent or blank text stays.
Thm_C5 ==
    Walked =>
        \A e \in Kept :
            /\ tag[e] = orig.tag[e]
            /\ attrib[e] = orig.attrib[e]
            /\ text[e] # orig.text[e] => Strip(orig.text[e]) # <<>>

Witness_C5 ==
    /\ Walked
    /\ \E e \in Kept : children[e] # <<>> /\ text[e] # orig.text[e]
    /\ \E e \in Kept : orig.text[e] = <<" ">> /\ text[e] = <<" ">>
    /\ \E e \in Kept : children[e] = <<>> /\ text[e] # orig.text[e]

\* C8: without --node the walk never normalises: the elements, their tags,
\* attributes and child sequences stay as parsed, whatever the count.
Thm_C8 ==
    (Target = NoTag /\ pc \in {"walk", "walked"}) =>
        /\ Len(tag) = Len(orig.tag)
        /\ tag = orig.tag
        /\ attrib = orig.attrib
        /\ children = orig.children
        /\ ~last.adjusted
        /\ \A e \in Elements(Heap) : ~hadTarget[e]

Witness_C8 ==
    /\ Target = NoTag
    /\ Walked
    /\ Count = 2
    /\ Len(tag) = 4
    /\ text # orig.text
    /\ \E e \in Elements(Heap) : Len(children[e]) = 2

\* C10 as claimed: the walk visits every element of the final tree exactly
\* once and no element is a child of two parents.
Claim_C10 ==
    Walked =>
        \A e \in InTree(Heap) : visits[e] = 1 /\ Cardinality(Parents(Heap, e)) <= 1

\* C6 as claimed: a second run of the tool on the output of the first, with
\* the same --node and --count, leaves every element with the number of target
\* children it had in that output.
Claim_C6 ==
    (run = 2 /\ pc \in {"walked", "exit"}) =>
        \A e \in Elements(orig) :
            TargetCount(Heap, e, Target) = TargetCount(orig, e, Target)

\* the same for the counts that are not negative
Idempotent_NonNegative == Count >= 0 => Claim_C6

\* C7: the destination is written at most once, and only after the output file
\* was resolved, the input parsed and the walk completed; without --output and
\* --replace the error comes before the input is parsed or walked; a malformed
\* input leaves nothing written.
InputMalformed ==
    /\ args.input \in Paths
    /\ fs[args.input].exists
    /\ Parse(fs[args.input].content).error # "none"

Thm_C7 ==
    /\ written <= 1
    /\ written = 1 =>
          /\ pc = "exit"
          /\ output_file = (IF args.replace THEN args.input ELSE args.output)
          /\ output_file \in Paths
          /\ parsed = 1
          /\ todo = <<>>
          /\ tag # <<>>
          /\ \A e \in InTree(Heap) : visits[e] >= 1
    /\ (args.output = NoArg /\ ~args.replace) =>
          /\ pc \in {"main", "ValueError"}
          /\ parsed = 0
          /\ Heap = EmptyHeap
          /\ written = 0
    /\ (written = 0 /\ InputMalformed) =>
          /\ pc \in {"main", "mock_xml", "ValueError", "ParseError"}
          /\ Heap = EmptyHeap
          /\ fs["out.xml"] = Absent
    /\ pc = "ParseError" => (written = 0 /\ InputMalformed)

Witness_C7 ==
    /\ pc = "exit"
    /\ written = 1
    /\ args.replace
    /\ args.output = NoArg
    /\ Len(orig.tag) = 2
    /\ fs["in.xml"] = File(Serialize(Heap, Root))

\* C9: infer_data_type returns, for every trimmed non-empty string, the first
\* of int (all digits), float (parses as a float), date (holds "-" or "/" and
\* the date check comes back), string (otherwise); a date check that raises
\* gives string and no exception leaves the function.
Thm_C9 ==
    pc = "returned" =>
        /\ result.kind = "return"
        /\ result.value \in {"int", "float", "date", "string"}
        /\ result.value = "int" <=> IsDigit(arg)
        /\ result.value = "float" <=> (~IsDigit(arg) /\ PyFloat(arg) = "ok")
        /\ result.value = "date" <=>
              /\ ~IsDigit(arg)
              /\ PyFloat(arg) # "ok"
              /\ HasDateSeparator(arg)
              /\ faker = "returns"
        /\ faker = "raises" => result.value # "date"

Witness_C9 ==
    /\ pc = "returned"
    /\ faker = "raises"
    /\ HasDateSeparator(arg)
    /\ PyFloat(arg) # "ok"
    /\ result = Return("string")

====
